---------------------------- MODULE Spec2Model ----------------------------
(***************************************************************************)
(* MonchBuffer: a random-access byte buffer with a byte cursor and a bit   *)
(* cursor, bounds-checked reads and writes of bytes and of 16/32/64-bit    *)
(* unsigned integers in both byte orders, growth, truncation and reset.    *)
(*                                                                         *)
(* The repository holds two revisions of the class:                        *)
(*   "buffer_ts" : src/src/lib/buffer.ts                                   *)
(*   "part_001"  : src/unnamed/part_001                                    *)
(* They share the byte reads, the cursor and the capacity operations.      *)
(* buffer_ts declares the loop index of every integer read with const,     *)
(* raises its errors as Error objects that carry the kind in the message   *)
(* and raises the read kinds from writeByte / writeBytes; part_001 adds    *)
(* the integer writes and toUint8Array and raises the classes of           *)
(* src/src/lib/error.ts.  The variable revision says which one runs.       *)
(* Assigning to a const is rejected by the TypeScript compiler, which      *)
(* still emits code: with an ES2015 or later target the emitted loop keeps *)
(* const and its first i++ throws a TypeError, with an ES5 target const is *)
(* emitted as var and the loop runs.  The target is not part of the        *)
(* sources, so buffer.ts runs as either: "buffer_ts" keeps const,          *)
(* "buffer_ts_var" is the ES5 emit.                                        *)
(*                                                                         *)
(* Numbers.  A byte is an integer 0..255 and a Uint16 an integer           *)
(* 0..65535.  A Uint32 / BigUint64 element does not fit the checker's      *)
(* integers, so it is kept as its base-65536 numeral, most significant     *)
(* limb first: <<hi, lo>> and <<l3, l2, l1, l0>>.  Store index i of the    *)
(* source (0-based) is position i + 1 of the sequence typedArray.          *)
(***************************************************************************)
EXTENDS Integers, Sequences, FiniteSets, TLC

VARIABLES
    revision,      \* which revision of the class is running
    typedArray,    \* this.typedArray   : the backing store
    byteOffset,    \* this.byteOffset   : the byte cursor
    byteCapacity,  \* this.byteCapacity
    bitOffset,     \* this.bitOffset    : the bit cursor
    bitCapacity,   \* this.bitCapacity
    call,          \* the last call made: [op, offset, count, data, relative]
    err,           \* how the last call ended: "none" or the kind thrown
    ret,           \* what the last call returned, as a sequence of elements
    held           \* an array a call returned that the caller still holds

vars == <<revision, typedArray, byteOffset, byteCapacity, bitOffset,
          bitCapacity, call, err, ret, held>>

-----------------------------------------------------------------------------
(* Bounds of the model.                                                    *)

\* largest capacity grow may reach in the life-cycle specification
MaxCap == 2
\* length of the shorter wide buffer of the single-call specification
WideLen == 8

-----------------------------------------------------------------------------
(* Error kinds.                                                            *)

NoError == "none"
Overread == "overread"
Underread == "underread"
Overwrite == "overwrite"
Underwrite == "underwrite"
InvalidByteCount == "invalid_byte_count"
\* assignment to a const binding (ECMAScript: TypeError)
ConstAssignment == "TypeError"
\* new Uint16Array(n) and the like with n < 0 (ECMAScript: RangeError)
InvalidLength == "RangeError"

ReadKinds == {Overread, Underread}
WriteKinds == {Overwrite, Underwrite}
BufferKinds == ReadKinds \cup WriteKinds \cup {InvalidByteCount}

Revisions == {"buffer_ts", "buffer_ts_var", "part_001"}

-----------------------------------------------------------------------------
(* ECMAScript helpers.                                                     *)

Min(a, b) == IF a < b THEN a ELSE b
Max(a, b) == IF a > b THEN a ELSE b

\* ToUint8 of an integer: the value modulo 2^8 (a Uint8Array element store)
ToUint8(x) == x % 256

\* a relative index of %TypedArray%.prototype.slice: negative counts from the end
RelIndex(i, len) == IF i < 0 THEN Max(len + i, 0) ELSE Min(i, len)

\* %TypedArray%.prototype.slice(start, end)
Slice(s, start, end) ==
    LET k == RelIndex(start, Len(s))
        f == RelIndex(end, Len(s))
        n == Max(f - k, 0)
    IN  [i \in 1..n |-> s[k + i]]

\* new Uint8Array(n): n zero bytes
Zeros(n) == [i \in 1..n |-> 0]

\* %TypedArray%.prototype.set(data, offset), the caller having checked the span
SetAt(s, data, offset) ==
    [i \in 1..Len(s) |->
        IF i - 1 >= offset /\ i - 1 < offset + Len(data)
        THEN data[i - offset] ELSE s[i]]

\* typedArray[index] = byte: an index outside the array stores nothing
SetByte(s, index, byte) ==
    [i \in 1..Len(s) |-> IF i - 1 = index THEN ToUint8(byte) ELSE s[i]]

\* x >> k on a signed integer: floor division by 2^k
Shr(x, k) == x \div (2 ^ k)

\* ~~x for x = n / 8: the quotient truncated toward zero
TruncDiv8(n) == IF n >= 0 THEN n \div 8 ELSE -((-n) \div 8)

-----------------------------------------------------------------------------
(* The object and the outcome of a call.                                   *)

\* (records list their fields in the order TLC keeps them, so that every
\* record is in normal form as built)
Buffer(ta, bo, bc, bio, bic) ==
    [typedArray |-> ta, byteOffset |-> bo, byteCapacity |-> bc,
     bitOffset |-> bio, bitCapacity |-> bic]

This == Buffer(typedArray, byteOffset, byteCapacity, bitOffset, bitCapacity)

\* a call that returned r and left the object as b
Return(b, r) == [err |-> NoError, ret |-> r, b |-> b]
\* a call that threw kind e with the object as b
Throw(b, e) == [err |-> e, ret |-> <<>>, b |-> b]

\* refresh(): recompute the cached capacities from the store
refresh(b) ==
    [b EXCEPT !.byteCapacity = Len(b.typedArray),
              !.bitCapacity = Len(b.typedArray) * 8]

\* constructor(...slices): concatenate the slices, cursors at 0, refresh
\* Uint8Array.from(iterable): every element stored as a byte
FromIterable(s) == [i \in 1..Len(s) |-> ToUint8(s[i])]

\* slices.reduce((p, c) => { p.push(...c); return p }, p)
RECURSIVE Reduce(_, _)
Reduce(slices, p) ==
    IF slices = <<>> THEN p ELSE Reduce(Tail(slices), p \o Head(slices))

\* the switch on slices.length
Concat(slices) ==
    IF Len(slices) = 0 THEN <<>>
    ELSE IF Len(slices) = 1 THEN FromIterable(slices[1])
    ELSE FromIterable(Reduce(slices, <<>>))

\* the constructor without its default case: slices after the first are dropped
constructor_FirstSliceOnly(slices) ==
    refresh(Buffer(IF Len(slices) = 0 THEN <<>> ELSE FromIterable(slices[1]), 0, 0, 0, 0))

constructor(slices) == refresh(Buffer(Concat(slices), 0, 0, 0, 0))

\* seekByte that also re-aligns the bit cursor
seekByte_Sync(b, offset, relative) ==
    LET to == IF relative THEN b.byteOffset + offset ELSE offset
    IN  [b EXCEPT !.byteOffset = to, !.bitOffset = to * 8]

\* seekByte(offset, relative)
seekByte(b, offset, relative) ==
    IF relative THEN [b EXCEPT !.byteOffset = b.byteOffset + offset]
    ELSE [b EXCEPT !.byteOffset = offset]

\* seekBit ignoring relative
seekBit_AlwaysAbsolute(b, offset, relative) == [b EXCEPT !.bitOffset = offset]

\* seekBit(offset, relative)
seekBit(b, offset, relative) ==
    IF relative THEN [b EXCEPT !.bitOffset = b.bitOffset + offset]
    ELSE [b EXCEPT !.bitOffset = offset]

-----------------------------------------------------------------------------
(* Byte reads.                                                             *)

\* readBytes(offset, count)
readBytes(b, offset, count) ==
    IF offset + count > b.byteCapacity THEN Throw(b, Overread)
    ELSE IF offset < 0 THEN Throw(b, Underread)
    ELSE Return(b, Slice(b.typedArray, offset, offset + count))

\* readByte(offset): readBytes(offset, 1)[0]
readByte(b, offset) ==
    LET r == readBytes(b, offset, 1)
    IN  IF r.err # NoError THEN r ELSE Return(r.b, SubSeq(r.ret, 1, 1))

\* readByteNext()
readByteNext(b) ==
    LET temp == readByte(b, b.byteOffset)
    IN  IF temp.err # NoError THEN temp
        ELSE Return(seekByte(temp.b, 1, TRUE), temp.ret)

\* readByteNext() called again and again until a call fails: the number of
\* calls that returned, after n of them, and the error of the one that did not
RECURSIVE ReadByteNextUntilError(_, _)
ReadByteNextUntilError(b, n) ==
    LET r == readByteNext(b)
    IN  IF r.err # NoError THEN <<n, r.err>>
        ELSE ReadByteNextUntilError(r.b, n + 1)

\* readBytesNext(count)
readBytesNext(b, count) ==
    LET temp == readBytes(b, b.byteOffset, count)
    IN  IF temp.err # NoError THEN temp
        ELSE Return(seekByte(temp.b, count, TRUE), temp.ret)

-----------------------------------------------------------------------------
(* Integer reads.                                                          *)

\* this.typedArray[k] in a bitwise expression: a missing element counts as 0
At(s, k) == IF k >= 0 /\ k < Len(s) THEN s[k + 1] ELSE 0

\* (byte << 24) as a signed 32-bit integer
Shl24(byte) == (IF byte >= 128 THEN byte - 256 ELSE byte) * 16777216

\* ToUint16: an element store of a Uint16Array
ToUint16(x) == x % 65536

\* ToUint32 of a signed 32-bit integer, as limbs: an element store of a Uint32Array
ToUint32(x) == <<(x \div 65536) % 65536, x % 65536>>

\* the loop index is declared const in buffer.ts: where the emitted code keeps
\* const the first i++ throws
ConstIndex(rev) == rev = "buffer_ts"

\* temp[i] of readUint16BE: a[o + 1] | (a[o] << 8), the operands share no bit
Uint16BEAt(s, o) == ToUint16(At(s, o + 1) + At(s, o) * 256)

\* temp[i] of readUint16LE: a[o] | (a[o + 1] << 8)
Uint16LEAt(s, o) == ToUint16(At(s, o) + At(s, o + 1) * 256)

\* temp[i] of readUint32BE: a[o+3] | a[o+2] << 8 | a[o+1] << 16 | a[o] << 24
Uint32BEAt(s, o) ==
    ToUint32(At(s, o + 3) + At(s, o + 2) * 256 + At(s, o + 1) * 65536
             + Shl24(At(s, o)))

\* temp[i] of readUint32LE: a[o] | a[o+1] << 8 | a[o+2] << 16 | a[o+3] << 24
Uint32LEAt(s, o) ==
    ToUint32(At(s, o) + At(s, o + 1) * 256 + At(s, o + 2) * 65536
             + Shl24(At(s, o + 3)))

\* temp[i] of readUint64BE: BigInt(a[o+7]) | BigInt(a[o+6]) << 8 | ... | BigInt(a[o]) << 56
Uint64BEAt(s, o) ==
    << At(s, o + 1) + At(s, o) * 256,
       At(s, o + 3) + At(s, o + 2) * 256,
       At(s, o + 5) + At(s, o + 4) * 256,
       At(s, o + 7) + At(s, o + 6) * 256 >>

\* temp[i] of readUint64LE: BigInt(a[o]) | BigInt(a[o+1]) << 8 | ... | BigInt(a[o+7]) << 56
Uint64LEAt(s, o) ==
    << At(s, o + 6) + At(s, o + 7) * 256,
       At(s, o + 4) + At(s, o + 5) * 256,
       At(s, o + 2) + At(s, o + 3) * 256,
       At(s, o) + At(s, o + 1) * 256 >>

\* readUint16BE(offset, count)
readUint16BE(rev, b, offset, count) ==
    IF offset + count * 2 > b.byteCapacity THEN Throw(b, Overread)
    ELSE IF offset < 0 THEN Throw(b, Underread)
    ELSE IF count < 0 THEN Throw(b, InvalidLength)
    ELSE IF ConstIndex(rev) /\ count >= 1 THEN Throw(b, ConstAssignment)
    ELSE Return(b, [i \in 1..count |-> Uint16BEAt(b.typedArray, offset + (i - 1) * 2)])

\* readUint16LE(offset, count)
readUint16LE(rev, b, offset, count) ==
    IF offset + count * 2 > b.byteCapacity THEN Throw(b, Overread)
    ELSE IF offset < 0 THEN Throw(b, Underread)
    ELSE IF count < 0 THEN Throw(b, InvalidLength)
    ELSE IF ConstIndex(rev) /\ count >= 1 THEN Throw(b, ConstAssignment)
    ELSE Return(b, [i \in 1..count |-> Uint16LEAt(b.typedArray, offset + (i - 1) * 2)])

\* readUint32BE(offset, count)
readUint32BE(rev, b, offset, count) ==
    IF offset + count * 4 > b.byteCapacity THEN Throw(b, Overread)
    ELSE IF offset < 0 THEN Throw(b, Underread)
    ELSE IF count < 0 THEN Throw(b, InvalidLength)
    ELSE IF ConstIndex(rev) /\ count >= 1 THEN Throw(b, ConstAssignment)
    ELSE Return(b, [i \in 1..count |-> Uint32BEAt(b.typedArray, offset + (i - 1) * 4)])

\* readUint32LE(offset, count)
readUint32LE(rev, b, offset, count) ==
    IF offset + count * 4 > b.byteCapacity THEN Throw(b, Overread)
    ELSE IF offset < 0 THEN Throw(b, Underread)
    ELSE IF count < 0 THEN Throw(b, InvalidLength)
    ELSE IF ConstIndex(rev) /\ count >= 1 THEN Throw(b, ConstAssignment)
    ELSE Return(b, [i \in 1..count |-> Uint32LEAt(b.typedArray, offset + (i - 1) * 4)])

\* readUint64BE(offset, count)
readUint64BE(rev, b, offset, count) ==
    IF offset + count * 8 > b.byteCapacity THEN Throw(b, Overread)
    ELSE IF offset < 0 THEN Throw(b, Underread)
    ELSE IF count < 0 THEN Throw(b, InvalidLength)
    ELSE IF ConstIndex(rev) /\ count >= 1 THEN Throw(b, ConstAssignment)
    ELSE Return(b, [i \in 1..count |-> Uint64BEAt(b.typedArray, offset + (i - 1) * 8)])

\* readUint64LE with the element width left out of the bounds check
readUint64LE_Unscaled(rev, b, offset, count) ==
    IF offset + count > b.byteCapacity THEN Throw(b, Overread)
    ELSE IF offset < 0 THEN Throw(b, Underread)
    ELSE IF count < 0 THEN Throw(b, InvalidLength)
    ELSE IF ConstIndex(rev) /\ count >= 1 THEN Throw(b, ConstAssignment)
    ELSE Return(b, [i \in 1..count |-> Uint64LEAt(b.typedArray, offset + (i - 1) * 8)])

\* readUint64LE(offset, count)
readUint64LE(rev, b, offset, count) ==
    IF offset + count * 8 > b.byteCapacity THEN Throw(b, Overread)
    ELSE IF offset < 0 THEN Throw(b, Underread)
    ELSE IF count < 0 THEN Throw(b, InvalidLength)
    ELSE IF ConstIndex(rev) /\ count >= 1 THEN Throw(b, ConstAssignment)
    ELSE Return(b, [i \in 1..count |-> Uint64LEAt(b.typedArray, offset + (i - 1) * 8)])

\* the offset-addressed integer read named op
ReadUint(op, rev, b, offset, count) ==
    CASE op = "readUint16BE" -> readUint16BE(rev, b, offset, count)
      [] op = "readUint16LE" -> readUint16LE(rev, b, offset, count)
      [] op = "readUint32BE" -> readUint32BE(rev, b, offset, count)
      [] op = "readUint32LE" -> readUint32LE(rev, b, offset, count)
      [] op = "readUint64BE" -> readUint64BE(rev, b, offset, count)
      [] op = "readUint64LE" -> readUint64LE(rev, b, offset, count)

\* bytes per element of the integer operation named op
Width(op) ==
    CASE op \in {"readUint16BE", "readUint16LE", "writeUint16BE", "writeUint16LE"} -> 2
      [] op \in {"readUint32BE", "readUint32LE", "writeUint32BE", "writeUint32LE"} -> 4
      [] op \in {"readUint64BE", "readUint64LE", "writeUint64BE", "writeUint64LE"} -> 8

\* readUintNN{BE,LE}Next advancing by count instead of count * NN/8
readUintNext_ByCount(op, rev, b, count) ==
    LET temp == ReadUint(op, rev, b, b.byteOffset, count)
    IN  IF temp.err # NoError THEN temp
        ELSE Return(seekByte(temp.b, count, TRUE), temp.ret)

\* readUintNN{BE,LE}Next(count): read at the cursor, then seekByte(count * NN/8, true)
readUintNext(op, rev, b, count) ==
    LET temp == ReadUint(op, rev, b, b.byteOffset, count)
    IN  IF temp.err # NoError THEN temp
        ELSE Return(seekByte(temp.b, count * Width(op), TRUE), temp.ret)

-----------------------------------------------------------------------------
(* Byte writes.                                                            *)

\* the kind writeByte / writeBytes throw for a span past the capacity:
\* buffer.ts throws Error('MonchBufferOverreadError'), part_001 BufferOverwriteError
ByteWriteOver(rev) == IF rev = "part_001" THEN Overwrite ELSE Overread

\* the kind writeByte / writeBytes throw for a negative offset:
\* buffer.ts throws Error('MonchBufferUnderreadError'), part_001 BufferUnderwriteError
ByteWriteUnder(rev) == IF rev = "part_001" THEN Underwrite ELSE Underread

\* writeBytes calling this.typedArray.set(data) without the offset
writeBytes_NoOffset(rev, b, offset, data) ==
    IF offset + Len(data) > b.byteCapacity THEN Throw(b, ByteWriteOver(rev))
    ELSE IF offset < 0 THEN Throw(b, ByteWriteUnder(rev))
    ELSE Return([b EXCEPT !.typedArray = SetAt(@, data, 0)], <<>>)

\* writeBytes(offset, data)
writeBytes(rev, b, offset, data) ==
    IF offset + Len(data) > b.byteCapacity THEN Throw(b, ByteWriteOver(rev))
    ELSE IF offset < 0 THEN Throw(b, ByteWriteUnder(rev))
    ELSE Return([b EXCEPT !.typedArray = SetAt(@, data, offset)], <<>>)

\* writeBytesNext(data)
writeBytesNext(rev, b, data) ==
    LET w == writeBytes(rev, b, b.byteOffset, data)
    IN  IF w.err # NoError THEN w
        ELSE Return(seekByte(w.b, Len(data), TRUE), <<>>)

\* writeByte(offset, byte)
writeByte(rev, b, offset, byte) ==
    IF offset + 1 > b.byteCapacity THEN Throw(b, ByteWriteOver(rev))
    ELSE IF offset < 0 THEN Throw(b, ByteWriteUnder(rev))
    ELSE Return([b EXCEPT !.typedArray = SetByte(@, offset, byte)], <<>>)

\* writeByteNext(byte)
writeByteNext(rev, b, byte) ==
    LET w == writeByte(rev, b, b.byteOffset, byte)
    IN  IF w.err # NoError THEN w
        ELSE Return(seekByte(w.b, 1, TRUE), <<>>)

-----------------------------------------------------------------------------
(* Integer writes (part_001).                                              *)

\* the stores typedArray[index] = bytes[1], typedArray[index + 1] = bytes[2], ...
RECURSIVE StoreBytes(_, _, _)
StoreBytes(s, index, bytes) ==
    IF bytes = <<>> THEN s
    ELSE StoreBytes(SetByte(s, index, Head(bytes)), index + 1, Tail(bytes))

\* the bytes of all elements, in element order
RECURSIVE Flatten(_)
Flatten(seqs) == IF seqs = <<>> THEN <<>> ELSE Head(seqs) \o Flatten(Tail(seqs))

\* ToInt32 of a Uint32 element: the operand of >> in writeUint32
ToInt32(w) == (IF w[1] >= 32768 THEN w[1] - 65536 ELSE w[1]) * 65536 + w[2]

\* data[i] >> 8, data[i]
Uint16BEBytes(v) == <<Shr(v, 8), v>>
\* data[i], data[i] >> 8
Uint16LEBytes(v) == <<v, Shr(v, 8)>>

\* data[i] >> 24, data[i] >> 16, data[i] >> 8, data[i]
Uint32BEBytes(w) ==
    <<Shr(ToInt32(w), 24), Shr(ToInt32(w), 16), Shr(ToInt32(w), 8), ToInt32(w)>>
\* data[i], data[i] >> 8, data[i] >> 16, data[i] >> 24
Uint32LEBytes(w) ==
    <<ToInt32(w), Shr(ToInt32(w), 8), Shr(ToInt32(w), 16), Shr(ToInt32(w), 24)>>

\* the number of bits of a limb
BitLen16(n) == CHOOSE k \in 0..16 : n < 2 ^ k /\ (k = 0 \/ n >= 2 ^ (k - 1))

\* the number of bits of a BigUint64 element
BitLen64(w) ==
    IF w[1] > 0 THEN 48 + BitLen16(w[1])
    ELSE IF w[2] > 0 THEN 32 + BitLen16(w[2])
    ELSE IF w[3] > 0 THEN 16 + BitLen16(w[3])
    ELSE BitLen16(w[4])

\* the base-256 digits of a BigUint64 element, most significant first
Digits64(w) ==
    <<w[1] \div 256, w[1] % 256, w[2] \div 256, w[2] % 256,
      w[3] \div 256, w[3] % 256, w[4] \div 256, w[4] % 256>>

\* x rounded to a multiple of 2^s, ties to the even multiple (x given by its low 16 bits)
RoundToEven(x, s) ==
    IF s = 0 THEN x
    ELSE LET q == x \div (2 ^ s)
             r == x % (2 ^ s)
             half == 2 ^ (s - 1)
         IN  (IF r > half \/ (r = half /\ q % 2 = 1) THEN q + 1 ELSE q) * (2 ^ s)

\* Number(data[i] >> BigInt(8 * j)) as stored in a Uint8Array element: Number()
\* rounds a BigInt of more than 53 bits to the nearest double, ties to even, and
\* the element store takes the result modulo 2^8
NumberShr(w, j) ==
    LET d == Digits64(w)
        low16 == (IF 7 - j >= 1 THEN d[7 - j] ELSE 0) * 256 + d[8 - j]
        excess == Max(BitLen64(w) - 8 * j - 53, 0)
    IN  RoundToEven(low16, excess)

\* Number(data[i] >> 56), ..., Number(data[i] >> 8), Number(data[i])
Uint64BEBytes(w) == [k \in 1..8 |-> NumberShr(w, 8 - k)]
\* Number(data[i]), Number(data[i] >> 8), ..., Number(data[i] >> 56)
Uint64LEBytes(w) == [k \in 1..8 |-> NumberShr(w, k - 1)]

\* writeUint16BE(offset, data)
writeUint16BE(b, offset, data) ==
    IF offset + Len(data) * 2 > b.byteCapacity THEN Throw(b, Overwrite)
    ELSE IF offset < 0 THEN Throw(b, Underwrite)
    ELSE Return([b EXCEPT !.typedArray = StoreBytes(@, offset,
                    Flatten([i \in 1..Len(data) |-> Uint16BEBytes(data[i])]))], <<>>)

\* writeUint16LE storing the high byte first
writeUint16LE_HighFirst(b, offset, data) ==
    IF offset + Len(data) * 2 > b.byteCapacity THEN Throw(b, Overwrite)
    ELSE IF offset < 0 THEN Throw(b, Underwrite)
    ELSE Return([b EXCEPT !.typedArray = StoreBytes(@, offset,
                    Flatten([i \in 1..Len(data) |-> Uint16BEBytes(data[i])]))], <<>>)

\* writeUint16LE(offset, data)
writeUint16LE(b, offset, data) ==
    IF offset + Len(data) * 2 > b.byteCapacity THEN Throw(b, Overwrite)
    ELSE IF offset < 0 THEN Throw(b, Underwrite)
    ELSE Return([b EXCEPT !.typedArray = StoreBytes(@, offset,
                    Flatten([i \in 1..Len(data) |-> Uint16LEBytes(data[i])]))], <<>>)

\* writeUint32BE(offset, data)
writeUint32BE(b, offset, data) ==
    IF offset + Len(data) * 4 > b.byteCapacity THEN Throw(b, Overwrite)
    ELSE IF offset < 0 THEN Throw(b, Underwrite)
    ELSE Return([b EXCEPT !.typedArray = StoreBytes(@, offset,
                    Flatten([i \in 1..Len(data) |-> Uint32BEBytes(data[i])]))], <<>>)

\* writeUint32LE(offset, data)
writeUint32LE(b, offset, data) ==
    IF offset + Len(data) * 4 > b.byteCapacity THEN Throw(b, Overwrite)
    ELSE IF offset < 0 THEN Throw(b, Underwrite)
    ELSE Return([b EXCEPT !.typedArray = StoreBytes(@, offset,
                    Flatten([i \in 1..Len(data) |-> Uint32LEBytes(data[i])]))], <<>>)

\* writeUint64BE(offset, data)
writeUint64BE(b, offset, data) ==
    IF offset + Len(data) * 8 > b.byteCapacity THEN Throw(b, Overwrite)
    ELSE IF offset < 0 THEN Throw(b, Underwrite)
    ELSE Return([b EXCEPT !.typedArray = StoreBytes(@, offset,
                    Flatten([i \in 1..Len(data) |-> Uint64BEBytes(data[i])]))], <<>>)

\* writeUint64LE(offset, data)
writeUint64LE(b, offset, data) ==
    IF offset + Len(data) * 8 > b.byteCapacity THEN Throw(b, Overwrite)
    ELSE IF offset < 0 THEN Throw(b, Underwrite)
    ELSE Return([b EXCEPT !.typedArray = StoreBytes(@, offset,
                    Flatten([i \in 1..Len(data) |-> Uint64LEBytes(data[i])]))], <<>>)

\* the offset-addressed integer write named op
WriteUint(op, b, offset, data) ==
    CASE op = "writeUint16BE" -> writeUint16BE(b, offset, data)
      [] op = "writeUint16LE" -> writeUint16LE(b, offset, data)
      [] op = "writeUint32BE" -> writeUint32BE(b, offset, data)
      [] op = "writeUint32LE" -> writeUint32LE(b, offset, data)
      [] op = "writeUint64BE" -> writeUint64BE(b, offset, data)
      [] op = "writeUint64LE" -> writeUint64LE(b, offset, data)

\* writeUintNN{BE,LE}Next moving the cursor before it writes
writeUintNext_SeekFirst(op, b, data) ==
    LET moved == seekByte(b, Len(data) * Width(op), TRUE)
        temp == WriteUint(op, moved, b.byteOffset, data)
    IN  IF temp.err # NoError THEN Throw(moved, temp.err)
        ELSE Return(temp.b, temp.ret)

\* writeUintNN{BE,LE}Next(data): write at the cursor, then seekByte(data.length * NN/8, true)
writeUintNext(op, b, data) ==
    LET temp == WriteUint(op, b, b.byteOffset, data)
    IN  IF temp.err # NoError THEN temp
        ELSE Return(seekByte(temp.b, Len(data) * Width(op), TRUE), temp.ret)

-----------------------------------------------------------------------------
(* Capacity, cursors and diagnostics.                                      *)

\* grow leaving the cached bit capacity as it was
grow_StaleBitCapacity(b, amount) ==
    IF amount < 0 THEN Throw(b, InvalidByteCount)
    ELSE LET cap == b.byteCapacity + amount
             temp == SetAt(Zeros(cap), b.typedArray, 0)
         IN  Return([b EXCEPT !.byteCapacity = cap, !.typedArray = temp], <<>>)

\* grow without temp.set(this.typedArray): the old bytes are lost
grow_NoCopy(b, amount) ==
    IF amount < 0 THEN Throw(b, InvalidByteCount)
    ELSE LET cap == b.byteCapacity + amount
         IN  Return([b EXCEPT !.byteCapacity = cap,
                              !.bitCapacity = b.bitCapacity + amount * 8,
                              !.typedArray = Zeros(cap)], <<>>)

\* grow(amount)
grow(b, amount) ==
    IF amount < 0 THEN Throw(b, InvalidByteCount)
    ELSE LET cap == b.byteCapacity + amount
             temp == SetAt(Zeros(cap), b.typedArray, 0)
         IN  Return([b EXCEPT !.byteCapacity = cap,
                              !.bitCapacity = b.bitCapacity + amount * 8,
                              !.typedArray = temp], <<>>)

\* truncateLeft keeping the head of the store instead of the tail
truncateLeft_KeepHead(b, amount) ==
    IF amount < 0 THEN Throw(b, InvalidByteCount)
    ELSE Return(refresh([b EXCEPT !.typedArray = Slice(@, 0, Max(0, b.byteCapacity - amount))]), <<>>)

\* truncateLeft moving the byte cursor back with the bytes
truncateLeft_ShiftCursor(b, amount) ==
    IF amount < 0 THEN Throw(b, InvalidByteCount)
    ELSE Return(refresh([b EXCEPT !.typedArray = Slice(@, amount, b.byteCapacity),
                                  !.byteOffset = @ - amount]), <<>>)

\* truncateLeft(amount)
truncateLeft(b, amount) ==
    IF amount < 0 THEN Throw(b, InvalidByteCount)
    ELSE Return(refresh([b EXCEPT !.typedArray = Slice(@, amount, b.byteCapacity)]), <<>>)

\* truncateRight with the guard amount <= 0 in place of amount < 0
truncateRight_RejectZero(b, amount) ==
    IF amount <= 0 THEN Throw(b, InvalidByteCount)
    ELSE Return(refresh([b EXCEPT !.typedArray = Slice(@, 0, b.byteCapacity - amount)]), <<>>)

\* truncateRight(amount)
truncateRight(b, amount) ==
    IF amount < 0 THEN Throw(b, InvalidByteCount)
    ELSE Return(refresh([b EXCEPT !.typedArray = Slice(@, 0, b.byteCapacity - amount)]), <<>>)

\* reset emptying the store but leaving the cursors
reset_KeepCursors(b) == Buffer(<<>>, b.byteOffset, 0, b.bitOffset, 0)

\* reset()
reset(b) == Buffer(<<>>, 0, 0, 0, 0)

\* alignBit copying the byte cursor without the factor 8
alignBit_Unscaled(b) == [b EXCEPT !.bitOffset = b.byteOffset]

\* alignBit()
alignBit(b) == [b EXCEPT !.bitOffset = b.byteOffset * 8]

\* alignByte with Math.floor in place of ~~
alignByte_Floor(b) == [b EXCEPT !.byteOffset = b.bitOffset \div 8]

\* alignByte()
alignByte(b) == [b EXCEPT !.byteOffset = TruncDiv8(b.bitOffset)]

\* afterByte counting the byte at the offset itself
afterByte_Inclusive(b, arg) ==
    IF arg # <<>> /\ arg[1] # 0 THEN b.byteCapacity - arg[1]
    ELSE b.byteCapacity - b.byteOffset

\* afterByte(offset?): arg is <<>> when no argument is passed, <<offset>> otherwise;
\* the test if (offset) takes undefined and 0 alike for "not given"
afterByte(b, arg) ==
    IF arg # <<>> /\ arg[1] # 0 THEN b.byteCapacity - arg[1] - 1
    ELSE b.byteCapacity - b.byteOffset - 1

\* afterBit(offset?)
afterBit(b, arg) ==
    IF arg # <<>> /\ arg[1] # 0 THEN b.bitCapacity - arg[1] - 1
    ELSE b.bitCapacity - b.bitOffset - 1

\* toArray(): Array.from(this.typedArray)
toArray(b) == [i \in 1..Len(b.typedArray) |-> b.typedArray[i]]

\* toUint8Array(): this.typedArray.slice()
toUint8Array(b) == Slice(b.typedArray, 0, Len(b.typedArray))

\* Arrays as objects.  An array the caller holds is <<shared, from, bytes>>:
\* shared says whether it is backed by the memory of this.typedArray (a view
\* of it from index from on) or by memory of its own; bytes is its content
\* when it was returned.  Nothing is held at first.
Nothing == <<>>
\* an array with memory of its own: what slice() and Array.from() allocate
Copy(bytes) == <<FALSE, 0, bytes>>
\* an array on the memory of the store itself, from index from on
View(from, bytes) == <<TRUE, from, bytes>>
\* what the array h holds while the store holds store
ValueOf(h, store) ==
    IF h[1] THEN [i \in 1..Len(h[3]) |-> store[h[2] + i]] ELSE h[3]

\* the array toArray() returns: Array.from allocates it
toArrayObject(b) == Copy(toArray(b))

\* the array toUint8Array() returns: slice() allocates it
toUint8ArrayObject(b) == Copy(toUint8Array(b))

\* readBytes with subarray in place of slice: a view of the store
readBytesObject_Subarray(b, offset, count) ==
    LET r == readBytes(b, offset, count)
    IN  IF r.err # NoError THEN Nothing
        ELSE View(RelIndex(offset, Len(b.typedArray)), r.ret)

\* the array readBytes(offset, count) returns: slice() allocates it
readBytesObject(b, offset, count) ==
    LET r == readBytes(b, offset, count)
    IN  IF r.err # NoError THEN Nothing ELSE Copy(r.ret)

-----------------------------------------------------------------------------
(* Calls.  Every action is one call on the object: it records the call,    *)
(* how it ended and what it returned, and leaves the object as the call    *)
(* left it.                                                                *)

Call(op, offset, count, data, relative) ==
    [data |-> data, offset |-> offset, relative |-> relative, count |-> count,
     op |-> op]

\* grow, truncateLeft, truncateRight and reset assign a new array to
\* this.typedArray; the writes store into the one that is there
Replacing == {"grow", "truncateLeft", "truncateRight", "reset"}

\* the held array after the call c ended as r: when the call replaces the store,
\* an array on the old memory keeps what that memory held
Detach(h, c, r, store) ==
    IF h # Nothing /\ h[1] /\ c.op \in Replacing /\ r.err = NoError
    THEN Copy(ValueOf(h, store))
    ELSE h

\* the call c ended as r and the caller now holds h
Step(c, r, h) ==
    /\ typedArray' = r.b.typedArray
    /\ byteOffset' = r.b.byteOffset
    /\ byteCapacity' = r.b.byteCapacity
    /\ bitOffset' = r.b.bitOffset
    /\ bitCapacity' = r.b.bitCapacity
    /\ call' = c
    /\ err' = r.err
    /\ ret' = r.ret
    /\ held' = h
    /\ UNCHANGED revision

\* the call c ended as r
Do(c, r) == Step(c, r, Detach(held, c, r, typedArray))

\* new MonchBuffer(...slices) in revision rev
New(rev, slices) ==
    LET b == constructor(slices)
    IN  /\ revision = rev
        /\ typedArray = b.typedArray
        /\ byteOffset = b.byteOffset
        /\ byteCapacity = b.byteCapacity
        /\ bitOffset = b.bitOffset
        /\ bitCapacity = b.bitCapacity
        /\ call = Call("constructor", 0, Len(slices), slices, FALSE)
        /\ err = NoError
        /\ ret = <<>>
        /\ held = Nothing

IntReads == {"readUint16BE", "readUint16LE", "readUint32BE", "readUint32LE",
             "readUint64BE", "readUint64LE"}
IntWrites == {"writeUint16BE", "writeUint16LE", "writeUint32BE", "writeUint32LE",
              "writeUint64BE", "writeUint64LE"}
NextOf(op) == op \o "Next"

\* the byte cursor a call may leave is kept inside lo..hi
CursorIn(r, lo, hi) == r.b.byteOffset \in lo..hi

ReadByte(offsets) ==
    \E offset \in offsets :
        Do(Call("readByte", offset, 1, <<>>, FALSE), readByte(This, offset))

ReadBytes(offsets, counts) ==
    \E offset \in offsets, count \in counts :
        Do(Call("readBytes", offset, count, <<>>, FALSE),
           readBytes(This, offset, count))

ReadByteNext(lo, hi) ==
    LET r == readByteNext(This)
    IN  /\ CursorIn(r, lo, hi)
        /\ Do(Call("readByteNext", byteOffset, 1, <<>>, FALSE), r)

ReadBytesNext(counts, lo, hi) ==
    \E count \in counts :
        LET r == readBytesNext(This, count)
        IN  /\ CursorIn(r, lo, hi)
            /\ Do(Call("readBytesNext", byteOffset, count, <<>>, FALSE), r)

ReadUintAt(offsets, counts) ==
    \E op \in IntReads, offset \in offsets, count \in counts :
        Do(Call(op, offset, count, <<>>, FALSE),
           ReadUint(op, revision, This, offset, count))

ReadUintNext(counts, lo, hi) ==
    \E op \in IntReads, count \in counts :
        LET r == readUintNext(op, revision, This, count)
        IN  /\ CursorIn(r, lo, hi)
            /\ Do(Call(NextOf(op), byteOffset, count, <<>>, FALSE), r)

WriteByte(offsets, bytes) ==
    \E offset \in offsets, byte \in bytes :
        Do(Call("writeByte", offset, 1, <<byte>>, FALSE),
           writeByte(revision, This, offset, byte))

WriteBytes(offsets, datas) ==
    \E offset \in offsets, data \in datas :
        Do(Call("writeBytes", offset, Len(data), data, FALSE),
           writeBytes(revision, This, offset, data))

WriteByteNext(bytes, lo, hi) ==
    \E byte \in bytes :
        LET r == writeByteNext(revision, This, byte)
        IN  /\ CursorIn(r, lo, hi)
            /\ Do(Call("writeByteNext", byteOffset, 1, <<byte>>, FALSE), r)

WriteBytesNext(datas, lo, hi) ==
    \E data \in datas :
        LET r == writeBytesNext(revision, This, data)
        IN  /\ CursorIn(r, lo, hi)
            /\ Do(Call("writeBytesNext", byteOffset, Len(data), data, FALSE), r)

\* the integer writes exist in part_001 only; datas[op] is the set of inputs tried
WriteUintAt(offsets, datas) ==
    /\ revision = "part_001"
    /\ \E op \in IntWrites, offset \in offsets :
          \E data \in datas[op] :
              Do(Call(op, offset, Len(data), data, FALSE),
                 WriteUint(op, This, offset, data))

WriteUintNext(datas, lo, hi) ==
    /\ revision = "part_001"
    /\ \E op \in IntWrites :
          \E data \in datas[op] :
              LET r == writeUintNext(op, This, data)
              IN  /\ CursorIn(r, lo, hi)
                  /\ Do(Call(NextOf(op), byteOffset, Len(data), data, FALSE), r)

SeekByte(offsets, deltas, lo, hi) ==
    \E relative \in BOOLEAN :
        \E offset \in (IF relative THEN deltas ELSE offsets) :
            LET b == seekByte(This, offset, relative)
            IN  /\ b.byteOffset \in lo..hi
                /\ Do(Call("seekByte", offset, 0, <<>>, relative), Return(b, <<>>))

SeekBit(offsets, deltas, positions) ==
    \E relative \in BOOLEAN :
        \E offset \in (IF relative THEN deltas ELSE offsets) :
            LET b == seekBit(This, offset, relative)
            IN  /\ b.bitOffset \in positions
                /\ Do(Call("seekBit", offset, 0, <<>>, relative), Return(b, <<>>))

AlignBit(positions) ==
    LET b == alignBit(This)
    IN  /\ b.bitOffset \in positions
        /\ Do(Call("alignBit", 0, 0, <<>>, FALSE), Return(b, <<>>))

AlignByte(lo, hi) ==
    LET b == alignByte(This)
    IN  /\ b.byteOffset \in lo..hi
        /\ Do(Call("alignByte", 0, 0, <<>>, FALSE), Return(b, <<>>))

AfterByte(args) ==
    \E arg \in args :
        Do(Call("afterByte", 0, 0, arg, FALSE), Return(This, <<afterByte(This, arg)>>))

AfterBit(args) ==
    \E arg \in args :
        Do(Call("afterBit", 0, 0, arg, FALSE), Return(This, <<afterBit(This, arg)>>))

Grow(amounts, cap) ==
    \E amount \in amounts :
        /\ byteCapacity + amount <= cap
        /\ Do(Call("grow", 0, amount, <<>>, FALSE), grow(This, amount))

TruncateLeft(amounts) ==
    \E amount \in amounts :
        Do(Call("truncateLeft", 0, amount, <<>>, FALSE), truncateLeft(This, amount))

TruncateRight(amounts) ==
    \E amount \in amounts :
        Do(Call("truncateRight", 0, amount, <<>>, FALSE), truncateRight(This, amount))

Reset == Do(Call("reset", 0, 0, <<>>, FALSE), Return(reset(This), <<>>))

Refresh == Do(Call("refresh", 0, 0, <<>>, FALSE), Return(refresh(This), <<>>))

ToArray == Do(Call("toArray", 0, 0, <<>>, FALSE), Return(This, toArray(This)))

ToUint8Array ==
    /\ revision = "part_001"
    /\ Do(Call("toUint8Array", 0, 0, <<>>, FALSE), Return(This, toUint8Array(This)))

\* const kept = buffer.toArray()
HoldToArray ==
    /\ held = Nothing
    /\ Step(Call("toArray", 0, 0, <<>>, FALSE), Return(This, toArray(This)),
            toArrayObject(This))

\* const kept = buffer.toUint8Array()
HoldToUint8Array ==
    /\ held = Nothing
    /\ revision = "part_001"
    /\ Step(Call("toUint8Array", 0, 0, <<>>, FALSE),
            Return(This, toUint8Array(This)), toUint8ArrayObject(This))

\* const kept = buffer.readBytes(offset, count), when the call returns
HoldReadBytes(offsets, counts) ==
    /\ held = Nothing
    /\ \E offset \in offsets, count \in counts :
          /\ readBytes(This, offset, count).err = NoError
          /\ Step(Call("readBytes", offset, count, <<>>, FALSE),
                  readBytes(This, offset, count),
                  readBytesObject(This, offset, count))

\* kept[index] = byte, by the caller: a store into the memory behind kept
SetReturned(indices, bytes) ==
    /\ held # Nothing
    /\ \E index \in indices, byte \in bytes :
          /\ index < Len(held[3])
          /\ typedArray' = IF held[1]
                           THEN SetByte(typedArray, held[2] + index, byte)
                           ELSE typedArray
          /\ held' = IF held[1]
                     THEN View(held[2], SetByte(held[3], index, byte))
                     ELSE Copy(SetByte(held[3], index, byte))
          /\ call' = Call("setReturned", index, 1, <<byte>>, FALSE)
          /\ err' = NoError
          /\ ret' = <<>>
          /\ UNCHANGED <<revision, byteOffset, byteCapacity, bitOffset,
                         bitCapacity>>

-----------------------------------------------------------------------------
(* The life-cycle specification: any sequence of calls on a small buffer.  *)

\* explicit offsets and absolute seeks
Offsets == -1..(MaxCap + 1)
\* the byte cursor is kept in -1..CursorHi
CursorHi == MaxCap + 1
\* the bit cursor is kept among these positions
BitPositions == {-9, -1, 12} \cup {8 * k : k \in (-1)..CursorHi}

\* constructor arguments
Slices == {<<>>, <<<<1, 2>>>>, <<<<1>>, <<2>>>>, <<<<1>>, <<>>, <<2>>>>}

\* inputs of the integer writes
SmallData ==
    [op \in IntWrites |->
        CASE Width(op) = 2 -> {<<513>>}
          [] Width(op) = 4 -> {<<<<1, 2>>>>}
          [] Width(op) = 8 -> {<<<<0, 0, 1, 2>>>>}]

Init == \E rev \in Revisions, slices \in Slices : New(rev, slices)

Next ==
    \/ ReadByte({-1, 1})
    \/ ReadBytes({0, 1}, {-1, 2})
    \/ ReadByteNext(-1, CursorHi)
    \/ ReadBytesNext({-1, 2}, -1, CursorHi)
    \/ ReadUintAt({0}, {1})
    \/ ReadUintNext({1}, -1, CursorHi)
    \/ WriteByte({-1, 1}, {2})
    \/ WriteBytes({0, 1}, {<<2, 1>>})
    \/ WriteByteNext({2}, -1, CursorHi)
    \/ WriteBytesNext({<<>>, <<2, 1>>}, -1, CursorHi)
    \/ WriteUintAt({0}, SmallData)
    \/ WriteUintNext(SmallData, -1, CursorHi)
    \/ SeekByte(Offsets, {-1, 1}, -1, CursorHi)
    \/ SeekBit({-9, 12}, {8}, BitPositions)
    \/ AlignBit(BitPositions)
    \/ AlignByte(-1, CursorHi)
    \/ AfterByte({<<>>, <<0>>, <<1>>})
    \/ AfterBit({<<>>, <<0>>, <<1>>})
    \/ Grow(-1..2, MaxCap)
    \/ TruncateLeft(-1..(MaxCap + 1))
    \/ TruncateRight(-1..(MaxCap + 1))
    \/ Reset
    \/ Refresh
    \/ ToArray
    \/ ToUint8Array

Spec == Init /\ [][Next]_vars

-----------------------------------------------------------------------------
(* The single-call specification: a buffer is constructed, the cursors are *)
(* placed with absolute seeks, and then any one call is made with inputs   *)
(* from a wide range.  Its buffers hold 0, 3, WideLen and 2 * WideLen + 1  *)
(* bytes, so that every width has calls that fit and calls that do not.    *)

\* n bytes, pairwise distinct for n < 256, with and without the top bit set
Ramp(n) == [i \in 1..n |-> (37 * i + 200) % 256]
\* the store of the decoding tests: 0x01 followed by zeros
One(n) == [i \in 1..n |-> IF i = 1 THEN 1 ELSE 0]

WideSlices ==
    {<<>>, <<Ramp(3)>>, <<Ramp(WideLen)>>, <<One(WideLen), Ramp(WideLen + 1)>>}

WideOffsets ==
    {-1, 0, 1, 3, WideLen - 1, WideLen, WideLen + 1, 2 * WideLen + 1, 2 * WideLen + 2}
WideCounts == {-1, 0, 1, 2, 3, WideLen}
WideLo == -(2 * WideLen)
WideHi == 4 * WideLen

\* limbs tried by the 32-bit and the 64-bit writes
Limbs32 == {0, 1, 32767, 32768, 57005, 65535}
Limbs64 == {0, 31, 32, 65535}

WideData ==
    [op \in IntWrites |->
        CASE Width(op) = 2 ->
                {<<>>, <<43981, 258>>, <<1, 2, 3>>}
                \cup {<<v>> : v \in {0, 1, 255, 256, 32768, 43981, 65535}}
          [] Width(op) = 4 ->
                {<<>>, <<<<57005, 48879>>, <<1, 2>>>>}
                \cup {<<<<hi, lo>>>> : hi \in Limbs32, lo \in Limbs32}
          [] Width(op) = 8 ->
                {<<>>, <<<<57005, 48879, 51966, 61453>>, <<0, 0, 1, 2>>>>}
                \cup {<<<<a, b, c, d>>>> : a \in Limbs64, b \in Limbs64,
                                           c \in Limbs64, d \in Limbs64}]

WideBytes == {<<>>, <<171>>, <<171, 205>>, Ramp(WideLen), Ramp(WideLen + 1)}

\* only the constructor and seeks have run
Fresh == call.op \in {"constructor", "seekByte", "seekBit"}

InitCall == \E rev \in Revisions, slices \in WideSlices : New(rev, slices)

NextCall ==
    \/ Fresh /\ SeekByte(WideOffsets, {}, WideLo, WideHi)
    \/ Fresh /\ SeekBit({12}, {}, {12})
    \/ Fresh /\ ReadByte(WideOffsets)
    \/ Fresh /\ ReadBytes(WideOffsets, WideCounts)
    \/ Fresh /\ ReadByteNext(WideLo, WideHi)
    \/ Fresh /\ ReadBytesNext(WideCounts, WideLo, WideHi)
    \/ Fresh /\ ReadUintAt(WideOffsets, WideCounts)
    \/ Fresh /\ ReadUintNext(WideCounts, WideLo, WideHi)
    \/ Fresh /\ WriteByte(WideOffsets, {0, 171, 255})
    \/ Fresh /\ WriteBytes(WideOffsets, WideBytes)
    \/ Fresh /\ WriteByteNext({0, 171, 255}, WideLo, WideHi)
    \/ Fresh /\ WriteBytesNext(WideBytes, WideLo, WideHi)
    \/ Fresh /\ WriteUintAt({-1, 0, 1, WideLen, WideLen + 2}, WideData)
    \/ Fresh /\ WriteUintNext(WideData, WideLo, WideHi)
    \/ Fresh /\ AlignBit({8 * k : k \in WideLo..WideHi})
    \/ Fresh /\ AlignByte(WideLo, WideHi)
    \/ Fresh /\ AfterByte({<<>>, <<0>>, <<1>>})
    \/ Fresh /\ AfterBit({<<>>, <<0>>, <<1>>})
    \/ Fresh /\ Grow(-1..2, 2 * WideLen + 3)
    \/ Fresh /\ TruncateLeft({-1, 0, 1, WideLen, 3 * WideLen})
    \/ Fresh /\ TruncateRight({-1, 0, 1, WideLen, 3 * WideLen})
    \/ Fresh /\ Reset
    \/ Fresh /\ Refresh
    \/ Fresh /\ ToArray
    \/ Fresh /\ ToUint8Array

SpecCall == InitCall /\ [][NextCall]_vars

-----------------------------------------------------------------------------
(* The aliasing specification: the caller keeps an array a call returned,  *)
(* then the buffer is written, grown, truncated or reset, or the caller    *)
(* stores into the array it kept.                                          *)

Held == held # Nothing

NextCopy ==
    \/ HoldToArray
    \/ HoldToUint8Array
    \/ HoldReadBytes({0, 1}, {1, 2})
    \/ Held /\ WriteByte({0, 1}, {7})
    \/ Held /\ WriteBytes({0}, {<<2, 1>>})
    \/ Held /\ WriteByteNext({7}, 0, MaxCap)
    \/ Held /\ WriteUintAt({0}, SmallData)
    \/ Held /\ Grow({1}, MaxCap + 1)
    \/ Held /\ TruncateLeft({1})
    \/ Held /\ TruncateRight({1})
    \/ Held /\ Reset
    \/ SetReturned({0, 1}, {9})

SpecCopy == Init /\ [][NextCopy]_vars

-----------------------------------------------------------------------------
(* Vocabulary of the properties.                                           *)

ByteReads == {"readByte", "readBytes"}
ByteWrites == {"writeByte", "writeBytes"}
OffsetReads == ByteReads \cup IntReads
OffsetWrites == ByteWrites \cup IntWrites
NextReads == {"readByteNext", "readBytesNext"} \cup {NextOf(op) : op \in IntReads}
NextWrites == {"writeByteNext", "writeBytesNext"} \cup {NextOf(op) : op \in IntWrites}
NextFamily == NextReads \cup NextWrites

\* the offset-addressed form of a next-family operation
BaseOf(op) == CHOOSE base \in OffsetReads \cup OffsetWrites : NextOf(base) = op

\* bytes per element of an operation: 1 for the byte operations
ElemWidth(op) ==
    IF op \in ByteReads \cup ByteWrites
          \cup {"readByteNext", "readBytesNext", "writeByteNext", "writeBytesNext"}
    THEN 1
    ELSE IF op \in IntReads \cup IntWrites THEN Width(op)
    ELSE Width(BaseOf(op))

\* the last byte index + 1 the recorded call asks for
Span(c) == c.offset + c.count * ElemWidth(c.op)

\* what the offset-addressed form of the next-family call c does on b at its cursor
OffsetForm(c, rev, b) ==
    CASE c.op = "readByteNext" -> readByte(b, b.byteOffset)
      [] c.op = "readBytesNext" -> readBytes(b, b.byteOffset, c.count)
      [] c.op = "writeByteNext" -> writeByte(rev, b, b.byteOffset, c.data[1])
      [] c.op = "writeBytesNext" -> writeBytes(rev, b, b.byteOffset, c.data)
      [] c.op \in {NextOf(op) : op \in IntReads} ->
            ReadUint(BaseOf(c.op), rev, b, b.byteOffset, c.count)
      [] c.op \in {NextOf(op) : op \in IntWrites} ->
            WriteUint(BaseOf(c.op), b, b.byteOffset, c.data)

\* the read that matches an offset-addressed write
ReadBack(op, rev, b, offset, count) ==
    CASE op = "writeBytes" -> readBytes(b, offset, count)
      [] op = "writeUint16BE" -> readUint16BE(rev, b, offset, count)
      [] op = "writeUint16LE" -> readUint16LE(rev, b, offset, count)
      [] op = "writeUint32BE" -> readUint32BE(rev, b, offset, count)
      [] op = "writeUint32LE" -> readUint32LE(rev, b, offset, count)
      [] op = "writeUint64BE" -> readUint64BE(rev, b, offset, count)
      [] op = "writeUint64LE" -> readUint64LE(rev, b, offset, count)

Reverse(s) == [i \in 1..Len(s) |-> s[Len(s) + 1 - i]]

\* the unsigned integer whose base-256 digits, most significant first, are bytes:
\* an integer for two bytes, limbs for four and eight
Numeral(bytes) ==
    IF Len(bytes) = 2 THEN bytes[1] * 256 + bytes[2]
    ELSE [k \in 1..(Len(bytes) \div 2) |-> bytes[2 * k - 1] * 256 + bytes[2 * k]]

BigEndian(op) ==
    op \in {"readUint16BE", "readUint32BE", "readUint64BE",
            "writeUint16BE", "writeUint32BE", "writeUint64BE"}

-----------------------------------------------------------------------------
(* Properties.                                                             *)

\* C1: an offset-addressed read whose span offset + count*w exceeds byteCapacity
\* fails with overread and returns nothing; one with offset >= 0 and the span
\* inside the capacity never fails with overread (w = 1, 2, 4, 8).
C1_ReadOverread ==
    call.op \in OffsetReads =>
        /\ Span(call) > byteCapacity => err = Overread /\ ret = <<>>
        /\ call.offset >= 0 /\ Span(call) <= byteCapacity => err # Overread

\* two 64-bit values asked for where only the first fits
C1_Witness ==
    /\ call.op = "readUint64LE" /\ call.count = 2 /\ call.offset >= 0
    /\ call.offset + 8 <= byteCapacity /\ Span(call) > byteCapacity
    /\ err = Overread

\* C2 (as claimed): every offset-addressed read with offset < 0 fails with
\* underread and every offset-addressed write with offset < 0 fails with
\* underwrite, whatever the count or the data length.
C2_NegativeOffset ==
    /\ call.op \in OffsetReads /\ call.offset < 0 => err = Underread
    /\ call.op \in OffsetWrites /\ call.offset < 0 => err = Underwrite

\* C3 (as claimed): a write whose span exceeds byteCapacity fails with overwrite,
\* and no write fails with a read kind.
C3_WriteKinds ==
    call.op \in OffsetWrites \cup NextWrites =>
        /\ Span(call) > byteCapacity => err = Overwrite
        /\ err \notin ReadKinds

\* C4: a call that fails with overread, underread, overwrite, underwrite or
\* invalid byte count leaves the store, both capacities and both cursors as
\* they were before the call.
C4_FailureChangesNothing ==
    [][err' \in BufferKinds =>
        UNCHANGED <<typedArray, byteCapacity, bitCapacity, byteOffset, bitOffset>>]_vars

\* a two-value integer next-write that does not fit, with both cursors off zero
C4_Witness ==
    /\ call.op = "writeUint32BENext" /\ Len(call.data) = 2 /\ err = Overwrite
    /\ byteOffset > 0 /\ byteOffset + 4 <= byteCapacity /\ bitOffset = 12

\* C5: a next-family call ends, returns and stores as its offset-addressed form
\* called with offset = the byte cursor, and on success moves the byte cursor
\* forward by the bytes consumed (count * w), on failure not at all.
C5_NextFamily ==
    [][call'.op \in NextFamily =>
        LET r == OffsetForm(call', revision, This)
        IN  /\ err' = r.err
            /\ ret' = r.ret
            /\ typedArray' = r.b.typedArray
            /\ byteOffset' = IF err' = NoError
                             THEN byteOffset + call'.count * ElemWidth(call'.op)
                             ELSE byteOffset]_vars

\* two 32-bit values read at cursor 1
C5_Witness ==
    /\ call.op = "readUint32LENext" /\ call.count = 2 /\ err = NoError
    /\ call.offset = 1 /\ byteOffset = 9 /\ Len(ret) = 2

\* C6: after a successful writeBytes / writeUint16 / writeUint32 of data at
\* offset, the matching read of Len(data) values at offset returns data.
C6_RoundTrip ==
    call.op \in {"writeBytes", "writeUint16BE", "writeUint16LE",
                 "writeUint32BE", "writeUint32LE"} /\ err = NoError =>
        LET r == ReadBack(call.op, revision, This, call.offset, Len(call.data))
        IN  r.err = NoError /\ r.ret = call.data

\* a 32-bit value with the top bit set written at a non-zero offset
C6_Witness ==
    /\ call.op = "writeUint32LE" /\ err = NoError /\ call.offset > 0
    /\ Len(call.data) = 1 /\ call.data[1][1] >= 32768

\* C7 (as claimed): after a successful writeUint64BE / writeUint64LE of one
\* value v at offset, the eight stored bytes are the bytes of v in that order
\* and the matching read at offset returns v.
C7_RoundTrip64 ==
    call.op \in {"writeUint64BE", "writeUint64LE"} /\ err = NoError
                                                   /\ Len(call.data) = 1 =>
        LET r == ReadBack(call.op, revision, This, call.offset, 1)
            stored == SubSeq(typedArray, call.offset + 1, call.offset + 8)
            digits == Digits64(call.data[1])
        IN  /\ r.err = NoError /\ r.ret = call.data
            /\ stored = IF BigEndian(call.op) THEN digits ELSE Reverse(digits)

\* C8 (as claimed): a readUintNN of count values at an in-range offset returns
\* count elements, element i being the integer whose bytes, most significant
\* first for BE and least significant first for LE, are the NN/8 store bytes
\* at offset + i*NN/8, which is also what the single-value read there returns.
C8_Decode ==
    call.op \in IntReads /\ call.offset >= 0 /\ call.count >= 0
                         /\ Span(call) <= byteCapacity =>
        /\ err = NoError
        /\ Len(ret) = call.count
        /\ \A i \in 1..call.count :
              LET w == Width(call.op)
                  o == call.offset + (i - 1) * w
                  bytes == SubSeq(typedArray, o + 1, o + w)
              IN  /\ ret[i] = Numeral(IF BigEndian(call.op) THEN bytes
                                      ELSE Reverse(bytes))
                  /\ <<ret[i]>> = ReadUint(call.op, revision, This, o, 1).ret

\* C9: byteCapacity is the length of the store and bitCapacity is 8 * byteCapacity.
C9_Capacities ==
    /\ byteCapacity = Len(typedArray)
    /\ bitCapacity = 8 * byteCapacity

\* a truncation that follows a growth that follows a truncation
C9_Witness ==
    /\ call.op = "truncateLeft" /\ err = NoError /\ call.count = 1
    /\ typedArray = <<0>> /\ byteOffset # 0

\* C10: grow(amount) with amount >= 0 succeeds, makes byteCapacity amount larger,
\* keeps the bytes at 0..old-1 and zero-fills old..old+amount-1; an empty buffer
\* with its cursor at 0, grown by n, accepts writeBytesNext of n bytes.
C10_Grow ==
    [][call'.op = "grow" /\ call'.count >= 0 =>
        /\ err' = NoError
        /\ byteCapacity' = byteCapacity + call'.count
        /\ Len(typedArray') = byteCapacity'
        /\ \A i \in 1..byteCapacity : typedArray'[i] = typedArray[i]
        /\ \A i \in (byteCapacity + 1)..byteCapacity' : typedArray'[i] = 0
        /\ byteCapacity = 0 /\ byteOffset = 0 =>
              writeBytesNext(revision,
                  Buffer(typedArray', byteOffset', byteCapacity', bitOffset', bitCapacity'),
                  [i \in 1..call'.count |-> 171]).err = NoError]_vars

\* a buffer that holds a non-zero byte, grown by one
C10_Witness ==
    /\ call.op = "grow" /\ err = NoError /\ call.count = 1
    /\ typedArray = <<2, 0>>

\* C11: truncateLeft(amount) with amount >= 0 succeeds and leaves the old store
\* without its first amount bytes, in order, with byteCapacity =
\* max(0, old capacity - amount).
C11_TruncateLeft ==
    [][call'.op = "truncateLeft" /\ call'.count >= 0 =>
        LET kept == Max(0, byteCapacity - call'.count)
        IN  /\ err' = NoError
            /\ typedArray' = [i \in 1..kept |-> typedArray[i + call'.count]]
            /\ byteCapacity' = kept]_vars

\* the first of three bytes cut off
C11_Witness ==
    /\ call.op = "truncateLeft" /\ call.count = 1 /\ err = NoError
    /\ typedArray = <<18, 55>> /\ byteCapacity = 2

\* C12 (as claimed): truncateRight(amount) with amount >= 0, amounts above the
\* capacity included, succeeds and leaves the first max(0, old capacity - amount)
\* bytes of the old store, in order, with byteCapacity equal to that number.
C12_TruncateRight ==
    [][call'.op = "truncateRight" /\ call'.count >= 0 =>
        LET kept == Max(0, byteCapacity - call'.count)
        IN  /\ err' = NoError
            /\ typedArray' = [i \in 1..kept |-> typedArray[i]]
            /\ byteCapacity' = kept]_vars

\* C13: grow, truncateLeft and truncateRight fail with invalid byte count exactly
\* when amount < 0 and succeed otherwise; with amount = 0 the store, both
\* capacities and both cursors stay as they were.
C13_InvalidByteCount ==
    [][call'.op \in {"grow", "truncateLeft", "truncateRight"} =>
        /\ err' = IF call'.count < 0 THEN InvalidByteCount ELSE NoError
        /\ call'.count = 0 =>
              UNCHANGED <<typedArray, byteCapacity, bitCapacity, byteOffset, bitOffset>>]_vars

\* truncateRight(0) on a buffer that holds bytes, with both cursors off zero
C13_Witness ==
    /\ call.op = "truncateRight" /\ call.count = 0 /\ err = NoError
    /\ typedArray = Ramp(3) /\ byteOffset > 0 /\ bitOffset = 12

\* C14 (as claimed): with the byte cursor above byteCapacity every next-family
\* read with count >= 0 fails with overread and every next-family write fails
\* with overwrite; with the byte cursor equal to byteCapacity every next-family
\* access of at least one element fails the same way.
C14_CursorPastEnd ==
    [][/\ call'.op \in NextFamily
        /\ \/ byteOffset > byteCapacity /\ call'.count >= 0
           \/ byteOffset = byteCapacity /\ call'.count >= 1
        => err' = IF call'.op \in NextReads THEN Overread ELSE Overwrite]_vars

\* C15: a successful write of L bytes at offset changes no byte outside
\* store[offset .. offset+L-1] and leaves the store length, byteCapacity and
\* bitCapacity as they were (L = 1, the data length, or count * NN/8; for a
\* next-family write offset is the byte cursor before the call).
C15_WriteFrame ==
    [][call'.op \in OffsetWrites \cup NextWrites /\ err' = NoError =>
        LET L == call'.count * ElemWidth(call'.op)
        IN  /\ Len(typedArray') = Len(typedArray)
            /\ byteCapacity' = byteCapacity
            /\ bitCapacity' = bitCapacity
            /\ \A i \in 1..Len(typedArray) :
                  i <= call'.offset \/ i > call'.offset + L =>
                      typedArray'[i] = typedArray[i]]_vars

\* two 16-bit values written in the middle of an eight-byte store
C15_Witness ==
    /\ call.op = "writeUint16BE" /\ call.offset = 1 /\ call.data = <<43981, 258>>
    /\ err = NoError /\ byteCapacity = WideLen
    /\ typedArray[1] = Ramp(WideLen)[1] /\ typedArray[2] = 171
    /\ typedArray[6] = Ramp(WideLen)[6]

\* C16: the byte cursor is changed only by seekByte, alignByte, reset and
\* successful next-family calls; every other call leaves it as it was.
C16_ByteCursorFrame ==
    [][byteOffset' # byteOffset =>
        \/ call'.op \in {"seekByte", "alignByte", "reset"}
        \/ call'.op \in NextFamily /\ err' = NoError]_vars

\* a truncation that leaves the byte cursor past the new capacity
C16_Witness ==
    /\ call.op = "truncateLeft" /\ call.count = 1 /\ err = NoError
    /\ byteOffset = 2 /\ byteCapacity = 1

\* C17: the bit cursor is changed only by seekBit, alignBit and reset (seekByte,
\* alignByte and the next-family calls leave it as it was), and seekBit leaves
\* the byte cursor as it was.
C17_BitCursorFrame ==
    [][/\ bitOffset' # bitOffset => call'.op \in {"seekBit", "alignBit", "reset"}
       /\ call'.op = "seekBit" => byteOffset' = byteOffset]_vars

\* a byte seek made while the bit cursor is not a multiple of eight
C17_Witness ==
    /\ call.op = "seekByte" /\ byteOffset = 2 /\ bitOffset = 12

\* the number of bytes in the first k of the byte sequences slices
RECURSIVE LenOfFirst(_, _)
LenOfFirst(slices, k) ==
    IF k = 0 THEN 0 ELSE LenOfFirst(slices, k - 1) + Len(slices[k])

\* C18: a buffer constructed from zero or more byte sequences holds their
\* concatenation in argument order (byte j of sequence k follows all bytes of
\* the sequences before it), byteCapacity is the sum of their lengths,
\* bitCapacity eight times that, both cursors are 0, and toArray() returns
\* exactly those bytes.
C18_Constructor ==
    call.op = "constructor" =>
        LET slices == call.data
            total == LenOfFirst(slices, Len(slices))
        IN  /\ err = NoError
            /\ Len(typedArray) = total
            /\ \A k \in 1..Len(slices) : \A j \in 1..Len(slices[k]) :
                  typedArray[LenOfFirst(slices, k - 1) + j] = slices[k][j]
            /\ byteCapacity = total
            /\ bitCapacity = 8 * total
            /\ byteOffset = 0 /\ bitOffset = 0
            /\ toArray(This) = typedArray

\* three sequences, the middle one empty
C18_Witness ==
    /\ call.op = "constructor" /\ call.count = 3 /\ typedArray = <<1, 2>>
    /\ byteCapacity = 2

\* C19: reset() succeeds from any state and leaves the store empty, both
\* capacities 0 and both cursors 0: the object is field for field the one
\* new MonchBuffer() constructs, so no later call can tell them apart.
C19_Reset ==
    [][call'.op = "reset" =>
        /\ err' = NoError
        /\ typedArray' = <<>>
        /\ byteCapacity' = 0 /\ bitCapacity' = 0
        /\ byteOffset' = 0 /\ bitOffset' = 0
        /\ Buffer(typedArray', byteOffset', byteCapacity', bitOffset', bitCapacity')
              = constructor(<<>>)]_vars

\* a reset has been made
C19_Witness ==
    /\ call.op = "reset" /\ err = NoError /\ typedArray = <<>>
    /\ byteOffset = 0 /\ bitOffset = 0

\* C20: seekByte and seekBit never fail; the absolute form sets its cursor to
\* offset and the relative form to current + offset, negative and
\* past-the-capacity results included; the store and the capacities stay.
C20_Seek ==
    [][/\ call'.op = "seekByte" =>
            /\ err' = NoError
            /\ byteOffset' = IF call'.relative THEN byteOffset + call'.offset
                             ELSE call'.offset
       /\ call'.op = "seekBit" =>
            /\ err' = NoError
            /\ bitOffset' = IF call'.relative THEN bitOffset + call'.offset
                            ELSE call'.offset
       /\ call'.op \in {"seekByte", "seekBit"} =>
            UNCHANGED <<typedArray, byteCapacity, bitCapacity>>]_vars

\* a relative byte seek that ends below zero
C20_Witness ==
    /\ call.op = "seekByte" /\ call.relative /\ call.offset = -1
    /\ byteOffset = -1 /\ err = NoError

\* the object after the step
ThisNext == Buffer(typedArray', byteOffset', byteCapacity', bitOffset', bitCapacity')

C23_After ==
    [][call'.op \in {"afterByte", "afterBit"} =>
        LET given == call'.data # <<>>
            cap == IF call'.op = "afterByte" THEN byteCapacity ELSE bitCapacity
            cursor == IF call'.op = "afterByte" THEN byteOffset ELSE bitOffset
        IN  /\ err' = NoError
            /\ ret' = <<cap - (IF given THEN call'.data[1] ELSE cursor) - 1>>
            /\ UNCHANGED <<typedArray, byteCapacity, bitCapacity,
                           byteOffset, bitOffset>>]_vars

\* C24: toArray() and toUint8Array() return every byte of the store in index
\* order, in an array of its own, and readBytes returns its span in an array of
\* its own: no later write, grow, truncate or reset changes what a returned
\* array holds, and a store into a returned array changes nothing of the buffer.
C24_Copies ==
    [][/\ (~Held /\ call'.op \in {"toArray", "toUint8Array"}) =>
            /\ ret' = typedArray
            /\ Held'
            /\ ValueOf(held', typedArray') = typedArray
       /\ (~Held /\ call'.op = "readBytes") =>
            /\ Held'
            /\ ValueOf(held', typedArray') = ret'
       /\ (Held /\ call'.op # "setReturned") =>
            ValueOf(held', typedArray') = ValueOf(held, typedArray)
       /\ call'.op = "setReturned" =>
            UNCHANGED <<typedArray, byteOffset, byteCapacity, bitOffset,
                        bitCapacity>>]_vars

\* an array read from <<1, 2>> is still <<1, 2>> after the store became <<2, 1>>
C24_Witness ==
    /\ held = Copy(<<1, 2>>)
    /\ call.op = "writeBytes"
    /\ err = NoError
    /\ typedArray = <<2, 1>>

\* C25 (as claimed): for all integers offset and count, a readBytes(offset,
\* count) that returns, returns exactly count bytes: store[offset], ...,
\* store[offset + count - 1], and nothing else.
C25_ReadSpan ==
    (call.op = "readBytes" /\ err = NoError) =>
        /\ Len(ret) = call.count
        /\ \A i \in 1..call.count :
              /\ call.offset + i \in 1..Len(typedArray)
              /\ ret[i] = typedArray[call.offset + i]

\* C26 (as claimed): from a byte cursor in [0, byteCapacity], every successful
\* next-family read or write, whatever its count or data, and every grow leave
\* the byte cursor in [0, byteCapacity] and do not decrease it; only seekByte,
\* alignByte, truncateLeft and truncateRight take the byte cursor out of range.
C26_CursorInRange ==
    [][(byteOffset >= 0 /\ byteOffset <= byteCapacity) =>
        /\ (call'.op \in NextFamily \cup {"grow"} /\ err' = NoError) =>
              /\ byteOffset' >= 0 /\ byteOffset' <= byteCapacity'
              /\ byteOffset' >= byteOffset
        /\ (byteOffset' < 0 \/ byteOffset' > byteCapacity') =>
              call'.op \in {"seekByte", "alignByte", "truncateLeft",
                            "truncateRight"}]_vars

\* C27: with the byte cursor in [0, byteCapacity], exactly afterByte() + 1
\* consecutive readByteNext() calls return and the next one fails with overread;
\* afterByte() is -1 exactly when no byte can be read at the cursor.
C27_AfterByteCountsReads ==
    (byteOffset >= 0 /\ byteOffset <= byteCapacity) =>
        /\ ReadByteNextUntilError(This, 0) = <<afterByte(This, <<>>) + 1, Overread>>
        /\ (afterByte(This, <<>>) = -1) <=> (readByteNext(This).err # NoError)

\* the third readByteNext() on a two-byte buffer: the byte cursor is at the end
C27_Witness ==
    /\ call.op = "readByteNext" /\ err = Overread
    /\ call.offset = byteCapacity /\ byteCapacity = MaxCap
    /\ afterByte(This, <<>>) = -1

\* C28 (as claimed): a readUint16/32/64{BE,LE}(offset, count) with offset >= 0
\* and count >= 1 that passes the bounds check raises no error and returns an
\* array of exactly count values.
C28_ReadUintCompletes ==
    (/\ call.op \in IntReads
     /\ call.offset >= 0
     /\ call.count >= 1
     /\ call.offset + call.count * Width(call.op) <= byteCapacity) =>
        /\ err = NoError
        /\ Len(ret) = call.count

\* C29 (as claimed): a read, write, grow or truncate call, whatever integers
\* it is given, either returns or fails with one of the five kinds overread,
\* underread, overwrite, underwrite and invalid byte count.
C29_FiveKinds ==
    call.op \in OffsetReads \cup OffsetWrites \cup NextFamily
                \cup {"grow", "truncateLeft", "truncateRight"} =>
        err \in BufferKinds \cup {NoError}

=============================================================================
